---- MODULE Spec2Model ----
(***************************************************************************)
(* Smart-Parking-System backend (src/backend/lambda.py).                   *)
(*                                                                         *)
(* One invocation of lambda_handler is one request.  Requests share the    *)
(* external collaborators: the occupancy table (ParkingLot), the session   *)
(* table (ParkingLogs), the image bucket, the text recognizer and the      *)
(* metrics sink.  A request is a sequence of steps, one per call to a      *)
(* collaborator; the local code between two calls belongs to the step of   *)
(* the call that precedes it.                                              *)
(*                                                                         *)
(* The code reads both tables with get_item and no ConsistentRead=True:    *)
(* the reads are eventually consistent, and the store may answer them      *)
(* from an earlier version of the table.  Writes and the values that       *)
(* update_item returns are those of the current version.                   *)
(*                                                                         *)
(* Spec       : requests handled one after the other, collaborators        *)
(*              succeed.                                                   *)
(* SpecFail   : requests handled one after the other, any collaborator     *)
(*              call may fail (raise).                                     *)
(* SpecConc   : the steps of the requests interleave, collaborators        *)
(*              succeed.                                                   *)
(* SpecCaught : as Spec, but the calls whose failure the code catches may  *)
(*              fail.                                                      *)
(* SpecInputs : one request, with every header spelling and every          *)
(*              recognizer result of the input domains.                    *)
(***************************************************************************)
EXTENDS Integers, Sequences, FiniteSets, TLC

VARIABLES
    table,        \* ParkingLot: set of items [lot_id, available_slots]
    logs_table,   \* ParkingLogs: set of items [log_id, entry_epoch, action, image_key]
    s3,           \* keys written to the image bucket
    rek_calls,    \* number of rekognition.detect_text calls made
    cloudwatch,   \* sequence of the metric batches pushed
    table_old,    \* the earlier versions of ParkingLot
    logs_old,     \* the earlier versions of ParkingLogs
    req,          \* req[i]: locals and position of request i
    pre           \* the collaborators' state when request pre.first arrived,
                  \* the latest request to arrive with no other in progress

vars == <<table, logs_table, table_old, logs_old, s3, rek_calls, cloudwatch, req, pre>>

----------------------------------------------------------------------------
(* Configuration (lambda.py lines 10-16) *)

MAX_SPOTS == 30

DEBUG_MODE == TRUE

CONFIDENCE_THRESHOLD == 70

SECONDS_PER_MINUTE == 60

----------------------------------------------------------------------------
(* Bounds and input domains *)

MaxRequests == 2

Requests == 1..MaxRequests

\* values time.time() returns; the wall clock is not monotonic (it can be set
\* back, and concurrent invocations run on hosts with different clocks)
Epochs == {0, 35, 125}

PlateTexts == {"ABC123", "XYZ789"}

HeaderNames == {"x-parking-action", "X-Parking-Action", "X-PARKING-ACTION"}

ActionValues == {"ENTRY", "EXIT", "PAY"}

\* event['headers']: at most one of the spellings is sent
HeaderSets ==
    {h \in UNION {[D -> ActionValues] : D \in SUBSET HeaderNames} :
        Cardinality(DOMAIN h) <= 1}

\* event['body'] ("NoBody": the key is missing)
Bodies == {"NoBody", "abc", "", "aW1n"}

MaxDetections == 2

\* what rekognition.detect_text returns: items {Type, Confidence, DetectedText}
DetectionItems ==
    { [Type |-> "LINE", Confidence |-> 90, DetectedText |-> "ABC123"],
      [Type |-> "LINE", Confidence |-> 80, DetectedText |-> "XYZ789"],
      [Type |-> "LINE", Confidence |-> 70, DetectedText |-> "XYZ789"],
      [Type |-> "WORD", Confidence |-> 90, DetectedText |-> "XYZ789"],
      [Type |-> "LINE", Confidence |-> 90, DetectedText |-> "UNKNOWN"] }

DetectionLists ==
    UNION {[1..n -> DetectionItems] : n \in 0..MaxDetections}

\* the occupancy records the runs start from: a full lot, one slot left, an
\* empty lot
InitialSlots == {0, 1, MAX_SPOTS}

\* the calls to collaborators
Calls ==
    {"s3_put", "detect_text", "table_get", "table_put", "table_update",
     "logs_put", "logs_get", "cw_put"}

\* the calls whose failure the code catches (lines 67, 79, 169, 216)
CaughtCalls == {"s3_put", "detect_text", "logs_get", "cw_put"}

\* headers that name the action the way the sender of this repository does:
\* none (ENTRY by default), or x-parking-action with another value
PlainHeaderSets ==
    {h \in HeaderSets :
        /\ DOMAIN h \subseteq {"x-parking-action"}
        /\ \A n \in DOMAIN h : h[n] # "ENTRY"}

\* recognizer results with at most one detection, a plate that passes
PlainDetectionLists ==
    {d \in DetectionLists :
        /\ Len(d) <= 1
        /\ \A k \in DOMAIN d :
            /\ d[k].Type = "LINE"
            /\ d[k].Confidence > CONFIDENCE_THRESHOLD
            /\ d[k].DetectedText \in PlateTexts}

\* The environment of a run: whether requests overlap, how many arrive, the
\* calls to collaborators that can fail, the values the clock returns to the
\* three places that read it (lines 59, 125 and 163), the headers sent and
\* the results the recognizer gives
EnvSeq ==
    [concurrent |-> FALSE, arrivals |-> Requests, failing |-> {},
     upload_epochs |-> {0, 125}, entry_epochs |-> Epochs, exit_epochs |-> Epochs,
     header_sets |-> PlainHeaderSets, detection_lists |-> PlainDetectionLists]

\* every call can fail; one plate is enough to tell the outcomes apart
EnvFail ==
    [concurrent |-> FALSE, arrivals |-> Requests, failing |-> Calls,
     upload_epochs |-> {0}, entry_epochs |-> {0}, exit_epochs |-> {125},
     header_sets |-> PlainHeaderSets,
     detection_lists |->
        {d \in PlainDetectionLists :
            \A k \in DOMAIN d : d[k].DetectedText = "ABC123"}]

EnvConc ==
    [concurrent |-> TRUE, arrivals |-> Requests, failing |-> {},
     upload_epochs |-> {0}, entry_epochs |-> {0}, exit_epochs |-> {125},
     header_sets |-> PlainHeaderSets, detection_lists |-> PlainDetectionLists]

\* only the calls whose failure the code catches can fail
EnvCaught ==
    [concurrent |-> FALSE, arrivals |-> Requests, failing |-> CaughtCalls,
     upload_epochs |-> {0}, entry_epochs |-> {0}, exit_epochs |-> {125},
     header_sets |-> PlainHeaderSets, detection_lists |-> PlainDetectionLists]

\* one request, with every header spelling and every recognizer result
EnvInputs ==
    [concurrent |-> FALSE, arrivals |-> {1}, failing |-> {},
     upload_epochs |-> {0}, entry_epochs |-> {0}, exit_epochs |-> {125},
     header_sets |-> HeaderSets, detection_lists |-> DetectionLists]

\* the outcomes of a call: it raises (TRUE) or not
Outcomes(E, call) == IF call \in E.failing THEN BOOLEAN ELSE {FALSE}

----------------------------------------------------------------------------
(* Helpers *)

\* dict.get(key, default)
DictGet(d, key, default) == IF key \in DOMAIN d THEN d[key] ELSE default

\* line 41
GetAction(headers) ==
    DictGet(headers, "x-parking-action",
            DictGet(headers, "X-Parking-Action", "ENTRY"))

\* base64.b64decode(event['body']): raises on a missing body (KeyError) and on
\* incorrect padding (binascii.Error)
B64Decode(body) ==
    CASE body = "aW1n" -> [ok |-> TRUE, bytes |-> "img"]
      [] body = ""     -> [ok |-> TRUE, bytes |-> ""]
      [] OTHER         -> [ok |-> FALSE, bytes |-> "None"]

\* str.lower() on the action values
Lower(s) ==
    CASE s = "ENTRY" -> "entry"
      [] s = "EXIT"  -> "exit"
      [] s = "PAY"   -> "pay"
      [] OTHER       -> s

\* the filter with the threshold included
RECURSIVE FilterDetectionsInclusive(_)
FilterDetectionsInclusive(items) ==
    IF items = <<>> THEN <<>>
    ELSE LET item == Head(items)
             rest == FilterDetectionsInclusive(Tail(items))
         IN  IF item.Type = "LINE" /\ item.Confidence >= CONFIDENCE_THRESHOLD
             THEN <<item.DetectedText>> \o rest
             ELSE rest

\* lines 75-78: the texts of the LINE detections above the threshold, in order
RECURSIVE FilterDetections(_)
FilterDetections(items) ==
    IF items = <<>> THEN <<>>
    ELSE LET item == Head(items)
             rest == FilterDetections(Tail(items))
         IN  IF item.Type = "LINE" /\ item.Confidence > CONFIDENCE_THRESHOLD
             THEN <<item.DetectedText>> \o rest
             ELSE rest

\* no sentinel when nothing was detected
PlateReadNoSentinel(detected_text) ==
    IF Len(detected_text) > 0 THEN detected_text[1] ELSE ""

\* line 83
PlateRead(detected_text) ==
    IF Len(detected_text) > 0 THEN detected_text[1] ELSE "UNKNOWN"

\* lines 219-226
api_response(code, message) == [statusCode |-> code, body |-> message]

\* no response: not answered yet, or the invocation ended with an unhandled
\* exception
NoResponse == [statusCode |-> 0, body |-> "NONE"]

\* int(x / 60) for an integer x: true division, then truncation toward zero
PyIntDiv(x, d) == IF x >= 0 THEN x \div d ELSE -((-x) \div d)

\* floor division in place of int(x / 60)
DurationMinutesFloor(exit_time, entry_time) ==
    (exit_time - entry_time) \div SECONDS_PER_MINUTE

\* lines 165-166
DurationMinutes(exit_time, entry_time) ==
    PyIntDiv(exit_time - entry_time, SECONDS_PER_MINUTE)

\* lines 186-209: the batch send_cloudwatch_data builds
MetricData(action, slots_left, duration_mins) ==
    <<[MetricName |-> "AvailableSlots_Demo", Value |-> slots_left]>>
    \o (IF action = "ENTRY"
        THEN <<[MetricName |-> "DailyCarCount", Value |-> 1]>>
        ELSE IF action = "EXIT" /\ duration_mins > 0
        THEN <<[MetricName |-> "ParkingDuration", Value |-> duration_mins]>>
        ELSE <<>>)

(* The key-value store (DynamoDB) *)

\* table.get_item(Key={'lot_id': 'lot1'}) answered from the version t of the
\* table: the items found (none or one)
TableGet(t) == {it \in t : it.lot_id = "lot1"}

\* table.put_item(Item={'lot_id': 'lot1', 'available_slots': n})
TablePut(t, n) ==
    {it \in t : it.lot_id # "lot1"}
        \cup {[lot_id |-> "lot1", available_slots |-> n]}

\* an update clamped to [0, MAX_SPOTS]
TableAddClamped(t, delta) ==
    {[it EXCEPT !.available_slots =
        IF @ + delta > MAX_SPOTS THEN MAX_SPOTS
        ELSE IF @ + delta < 0 THEN 0 ELSE @ + delta] : it \in t}

\* update_item "set available_slots = available_slots + delta": an atomic
\* read-modify-write of the stored item; defined when the item exists
TableAdd(t, delta) ==
    {[it EXCEPT !.available_slots = @ + delta] : it \in t}

\* the stored available_slots (of an existing record)
Slots(t) == (CHOOSE it \in t : it.lot_id = "lot1").available_slots

\* logs_table.get_item(Key={'log_id': plate}) answered from the version l of
\* the table
LogsGet(l, plate) == {it \in l : it.log_id = plate}

\* a put that keeps the item already stored under the key
LogsPutKeepOld(l, item) ==
    IF \E it \in l : it.log_id = item.log_id THEN l ELSE l \cup {item}

\* logs_table.put_item(Item=...): replaces the item with the same key
LogsPut(l, item) == {it \in l : it.log_id # item.log_id} \cup {item}

----------------------------------------------------------------------------
(* State *)

\* item is what the get_item of handle_entry answered (response, line 102),
\* car_record what the get_item of handle_exit answered (line 160).  failed
\* and updated_slots are not locals of the code: failed is the set of calls
\* that raised in the request, updated_slots the stored available_slots
\* right after the request's own update_item
IdleRequest ==
    [pc |-> "idle", headers |-> [n \in {} |-> "ENTRY"], body |-> "NoBody",
     action |-> "NONE", image_bytes |-> "None",
     filename |-> <<"error.jpg">>, detections |-> <<>>, plate |-> "NONE",
     slots |-> 0, new_slots |-> 0, updated_slots |-> 0, current_epoch |-> 0,
     exit_time |-> 0, duration_minutes |-> 0, response |-> NoResponse,
     item |-> {}, car_record |-> {}, failed |-> {}]

\* before is the occupancy table that the request handled before request i
\* found (the table itself for the first request)
Snapshot(i) ==
    [first |-> i, before |-> IF i = 1 THEN table ELSE pre.table,
     table |-> table, logs_table |-> logs_table, s3 |-> s3,
     rek_calls |-> rek_calls, cloudwatch |-> cloudwatch]

Finished(i) == req[i].pc \in {"done", "crashed"}

\* the versions of the tables that an eventually consistent read can be
\* answered from: the current one and the earlier ones
TableVersions == {table} \cup table_old

LogsVersions == {logs_table} \cup logs_old

\* a write leaves the version it replaces behind
Remember ==
    /\ table_old' = IF table' = table THEN table_old
                    ELSE table_old \cup {table}
    /\ logs_old' = IF logs_table' = logs_table THEN logs_old
                   ELSE logs_old \cup {logs_table}

Init ==
    /\ table \in {{}} \cup {{[lot_id |-> "lot1", available_slots |-> n]} :
                              n \in InitialSlots}
    /\ logs_table = {}
    /\ table_old = {}
    /\ logs_old = {}
    /\ s3 = {}
    /\ rek_calls = 0
    /\ cloudwatch = <<>>
    /\ req = [i \in Requests |-> IdleRequest]
    /\ pre = Snapshot(1)

\* the call raised (fails) or not: remembered in r
Raised(r, call, fails) ==
    IF fails THEN [r EXCEPT !.failed = @ \cup {call}] ELSE r

\* an exception raised by call and not handled ends the invocation without a
\* response
Crash(i, call) ==
    req' = [req EXCEPT ![i] = Raised([req[i] EXCEPT !.pc = "crashed"], call, TRUE)]

\* lines 85-91 (with the checks of handle_entry / handle_exit that precede
\* their first store call: none)
Route(r) ==
    IF r.action = "ENTRY" THEN [r EXCEPT !.pc = "entry_get"]
    ELSE IF r.action = "EXIT" THEN [r EXCEPT !.pc = "exit_update"]
    ELSE [r EXCEPT !.pc = "done", !.response = api_response(400, "INVALID_ACTION")]

----------------------------------------------------------------------------
(* lambda_handler *)

\* the return after a failed decoding left out: the request goes on with
\* image_bytes = None
AfterDecodeNoReturn(r, dec) ==
    IF ~dec.ok
    THEN Route([r EXCEPT !.plate = PlateRead(<<>>)])
    ELSE LET r1 == [r EXCEPT !.image_bytes = dec.bytes]
         IN  IF DEBUG_MODE /\ dec.bytes # ""
             THEN [r1 EXCEPT !.pc = "s3_put"]
             ELSE IF dec.bytes # ""
             THEN [r1 EXCEPT !.pc = "detect_text"]
             ELSE Route([r1 EXCEPT !.plate = PlateRead(<<>>)])

\* lines 52-58 and 72: what follows the decoding; r holds the action, dec is
\* the outcome of the decoding
AfterDecode(r, dec) ==
    IF ~dec.ok
    THEN [r EXCEPT !.pc = "done",
                   !.response = api_response(400, "IMAGE_DECODE_ERROR")]
    ELSE LET r1 == [r EXCEPT !.image_bytes = dec.bytes]
         IN  IF DEBUG_MODE /\ dec.bytes # ""
             THEN [r1 EXCEPT !.pc = "s3_put"]
             ELSE IF dec.bytes # ""
             THEN [r1 EXCEPT !.pc = "detect_text"]
             ELSE Route([r1 EXCEPT !.plate = PlateRead(<<>>)])

\* lines 36-58 (and 70-91 when there are no image bytes): request i arrives
lambda_handler(i, E) ==
    /\ req[i].pc = "idle"
    /\ \A j \in Requests : j < i => req[j].pc # "idle"
    /\ i \in E.arrivals
    /\ E.concurrent \/ \A j \in Requests : j < i => Finished(j)
    /\ \E headers \in E.header_sets, isBase64Encoded \in BOOLEAN, body \in Bodies :
        LET action == GetAction(headers)
            dec == IF isBase64Encoded THEN B64Decode(body) ELSE B64Decode(body)
        IN  req' = [req EXCEPT ![i] =
                AfterDecode([req[i] EXCEPT !.headers = headers, !.body = body,
                                           !.action = action], dec)]
    /\ pre' = IF \A j \in Requests : j < i => Finished(j) THEN Snapshot(i) ELSE pre
    /\ UNCHANGED <<table, logs_table, s3, rek_calls, cloudwatch>>
    /\ Remember

\* lines 59-68: the debug upload; a failure is caught and logged
debug_storage(i, E) ==
    /\ req[i].pc = "s3_put"
    /\ \E now \in E.upload_epochs, fails \in Outcomes(E, "s3_put") :
        LET filename == <<Lower(req[i].action), now>>
        IN  /\ req' = [req EXCEPT ![i] =
                    Raised([req[i] EXCEPT !.filename = filename,
                                          !.pc = "detect_text"],
                           "s3_put", fails)]
            /\ s3' = IF fails THEN s3 ELSE s3 \cup {filename}
    /\ UNCHANGED <<table, logs_table, rek_calls, cloudwatch, pre>>
    /\ Remember

\* lines 70-91: text recognition (a failure is caught: nothing detected),
\* then routing
ocr(i, E) ==
    /\ req[i].pc = "detect_text"
    /\ \E fails \in Outcomes(E, "detect_text") :
        \E detections \in (IF fails THEN {<<>>} ELSE E.detection_lists) :
            LET detected_text == FilterDetections(detections)
            IN  req' = [req EXCEPT ![i] =
                    Raised(Route([req[i] EXCEPT
                                    !.detections = detections,
                                    !.plate = PlateRead(detected_text)]),
                           "detect_text", fails)]
    /\ rek_calls' = rek_calls + 1
    /\ UNCHANGED <<table, logs_table, s3, cloudwatch, pre>>
    /\ Remember

----------------------------------------------------------------------------
(* handle_entry *)

\* lines 111-115 and 138-139: the checks made once slots is known
EntryChecks(r, slots) ==
    IF slots <= 0
    THEN [r EXCEPT !.slots = slots, !.pc = "done",
                   !.response = api_response(200, "FULL")]
    ELSE IF r.plate # "UNKNOWN"
    THEN [r EXCEPT !.slots = slots, !.pc = "entry_update"]
    ELSE [r EXCEPT !.slots = slots, !.pc = "done",
                   !.response = api_response(200, "DENIED_NO_TEXT")]

\* lines 102-115: read the occupancy record
entry_get(i, E) ==
    /\ req[i].pc = "entry_get"
    /\ \E fails \in Outcomes(E, "table_get") :
        IF fails THEN Crash(i, "table_get")
        ELSE \E version \in TableVersions :
                LET response == TableGet(version)
                    r == [req[i] EXCEPT !.item = response]
                IN  req' = [req EXCEPT ![i] =
                        IF response = {}
                        THEN [r EXCEPT !.pc = "entry_init"]
                        ELSE EntryChecks(r, Slots(response))]
    /\ UNCHANGED <<table, logs_table, s3, rek_calls, cloudwatch, pre>>
    /\ Remember

\* lines 106-115: the record was absent: create it with MAX_SPOTS
entry_init(i, E) ==
    /\ req[i].pc = "entry_init"
    /\ \E fails \in Outcomes(E, "table_put") :
        IF fails THEN Crash(i, "table_put") /\ UNCHANGED table
        ELSE /\ table' = TablePut(table, MAX_SPOTS)
             /\ req' = [req EXCEPT ![i] = EntryChecks(req[i], MAX_SPOTS)]
    /\ UNCHANGED <<logs_table, s3, rek_calls, cloudwatch, pre>>
    /\ Remember

\* lines 117-122: new_slots from the value read, then the atomic decrement
entry_update(i, E) ==
    /\ req[i].pc = "entry_update"
    /\ \E fails \in Outcomes(E, "table_update") :
        IF fails \/ TableGet(table) = {}
        THEN Crash(i, "table_update") /\ UNCHANGED table
        ELSE /\ table' = TableAdd(table, -1)
             /\ req' = [req EXCEPT ![i].new_slots = req[i].slots - 1,
                                   ![i].updated_slots = Slots(table'),
                                   ![i].pc = "entry_log"]
    /\ UNCHANGED <<logs_table, s3, rek_calls, cloudwatch, pre>>
    /\ Remember

\* lines 125-132: write the session record
entry_log(i, E) ==
    /\ req[i].pc = "entry_log"
    /\ \E current_epoch \in E.entry_epochs, fails \in Outcomes(E, "logs_put") :
        IF fails THEN Crash(i, "logs_put") /\ UNCHANGED logs_table
        ELSE /\ logs_table' = LogsPut(logs_table,
                    [log_id |-> req[i].plate, entry_epoch |-> current_epoch,
                     action |-> "ENTRY", image_key |-> req[i].filename])
             /\ req' = [req EXCEPT ![i].current_epoch = current_epoch,
                                   ![i].pc = "entry_metrics"]
    /\ UNCHANGED <<table, s3, rek_calls, cloudwatch, pre>>
    /\ Remember

\* lines 135-137 (send_cloudwatch_data, lines 181-217: a failed push is
\* caught and logged)
entry_metrics(i, E) ==
    /\ req[i].pc = "entry_metrics"
    /\ \E fails \in Outcomes(E, "cw_put") :
        /\ cloudwatch' = IF fails THEN cloudwatch
                         ELSE Append(cloudwatch,
                                     MetricData("ENTRY", req[i].new_slots, 0))
        /\ req' = [req EXCEPT ![i] =
                Raised([req[i] EXCEPT
                            !.pc = "done",
                            !.response = api_response(200, "OPEN_GATE")],
                       "cw_put", fails)]
    /\ UNCHANGED <<table, logs_table, s3, rek_calls, pre>>
    /\ Remember

----------------------------------------------------------------------------
(* handle_exit *)

\* lines 147-157: the atomic increment, which returns the new value; the
\* update expression is an error when the record does not exist
exit_update(i, E) ==
    /\ req[i].pc = "exit_update"
    /\ \E fails \in Outcomes(E, "table_update") :
        IF fails \/ TableGet(table) = {}
        THEN Crash(i, "table_update") /\ UNCHANGED table
        ELSE /\ table' = TableAdd(table, 1)
             /\ req' = [req EXCEPT ![i].new_slots = Slots(table'),
                                   ![i].updated_slots = Slots(table'),
                                   ![i].duration_minutes = 0,
                                   ![i].pc = IF req[i].plate # "UNKNOWN"
                                             THEN "exit_lookup"
                                             ELSE "exit_metrics"]
    /\ UNCHANGED <<logs_table, s3, rek_calls, cloudwatch, pre>>
    /\ Remember

\* a lookup whose failure is not caught
exit_lookup_uncaught(i, E) ==
    /\ req[i].pc = "exit_lookup"
    /\ \E exit_time \in E.exit_epochs, fails \in Outcomes(E, "logs_get") :
        \E version \in (IF fails THEN {logs_table} ELSE LogsVersions) :
        LET car_record == LogsGet(version, req[i].plate)
        IN  IF fails THEN Crash(i, "logs_get")
            ELSE req' = [req EXCEPT ![i] =
                    IF car_record = {}
                    THEN [req[i] EXCEPT !.pc = "exit_metrics"]
                    ELSE LET entry_time == (CHOOSE it \in car_record : TRUE).entry_epoch
                         IN  [req[i] EXCEPT
                                !.car_record = car_record,
                                !.exit_time = exit_time,
                                !.duration_minutes =
                                    DurationMinutes(exit_time, entry_time),
                                !.pc = "exit_metrics"]]
    /\ UNCHANGED <<table, logs_table, s3, rek_calls, cloudwatch, pre>>
    /\ Remember

\* lines 158-170: look the session record up and compute the duration; a
\* failure is caught and leaves the duration 0
exit_lookup(i, E) ==
    /\ req[i].pc = "exit_lookup"
    /\ \E exit_time \in E.exit_epochs, fails \in Outcomes(E, "logs_get") :
        \E version \in (IF fails THEN {logs_table} ELSE LogsVersions) :
        LET car_record == LogsGet(version, req[i].plate)
        IN  req' = [req EXCEPT ![i] =
                IF fails \/ car_record = {}
                THEN Raised([req[i] EXCEPT !.pc = "exit_metrics"],
                            "logs_get", fails)
                ELSE LET entry_time == (CHOOSE it \in car_record : TRUE).entry_epoch
                     IN  [req[i] EXCEPT
                            !.car_record = car_record,
                            !.exit_time = exit_time,
                            !.duration_minutes =
                                DurationMinutes(exit_time, entry_time),
                            !.pc = "exit_metrics"]]
    /\ UNCHANGED <<table, logs_table, s3, rek_calls, cloudwatch, pre>>
    /\ Remember

\* lines 173-175
exit_metrics(i, E) ==
    /\ req[i].pc = "exit_metrics"
    /\ \E fails \in Outcomes(E, "cw_put") :
        /\ cloudwatch' = IF fails THEN cloudwatch
                         ELSE Append(cloudwatch,
                                     MetricData("EXIT", req[i].new_slots,
                                                req[i].duration_minutes))
        /\ req' = [req EXCEPT ![i] =
                Raised([req[i] EXCEPT
                            !.pc = "done",
                            !.response = api_response(200, "EXIT_SUCCESS")],
                       "cw_put", fails)]
    /\ UNCHANGED <<table, logs_table, s3, rek_calls, pre>>
    /\ Remember

----------------------------------------------------------------------------
(* Specifications *)

Step(i, E) ==
    \/ debug_storage(i, E)
    \/ ocr(i, E)
    \/ entry_get(i, E)
    \/ entry_init(i, E)
    \/ entry_update(i, E)
    \/ entry_log(i, E)
    \/ entry_metrics(i, E)
    \/ exit_update(i, E)
    \/ exit_lookup(i, E)
    \/ exit_metrics(i, E)

Next == \E i \in Requests : lambda_handler(i, EnvSeq) \/ Step(i, EnvSeq)

NextFail == \E i \in Requests : lambda_handler(i, EnvFail) \/ Step(i, EnvFail)

NextConc == \E i \in Requests : lambda_handler(i, EnvConc) \/ Step(i, EnvConc)

Spec == Init /\ [][Next]_vars

SpecFail == Init /\ [][NextFail]_vars

SpecConc == Init /\ [][NextConc]_vars

NextCaught ==
    \E i \in Requests : lambda_handler(i, EnvCaught) \/ Step(i, EnvCaught)

SpecCaught == Init /\ [][NextCaught]_vars

NextInputs ==
    \E i \in Requests : lambda_handler(i, EnvInputs) \/ Step(i, EnvInputs)

SpecInputs == Init /\ [][NextInputs]_vars

----------------------------------------------------------------------------
(* Properties.  In Spec and SpecFail the requests do not overlap, so          *)
(* pre.first is the latest request to arrive and pre is the state it found.  *)

Last == req[pre.first]

LastFinished == Finished(pre.first)

\* the request got past the decoding and the recognition: it has a plate
HasPlate(r) == r.plate \in PlateTexts \cup {"UNKNOWN"}

\* the slots a store state offers: an absent record counts as MAX_SPOTS
Available(t) == IF TableGet(t) = {} THEN MAX_SPOTS ELSE Slots(t)

\* C1: an ENTRY with a recognized plate that finds a slot available (an
\* absent record counting as MAX_SPOTS) leaves available_slots one less than
\* it found, leaves exactly one session record for the plate, whose
\* entry_epoch is the time the request read, and answers {200, OPEN_GATE}.
C1_EntryOpensGate ==
    (/\ LastFinished
     /\ Last.action = "ENTRY"
     /\ Last.plate \in PlateTexts
     /\ Available(pre.table) > 0)
    => /\ TableGet(table) # {}
       /\ Slots(table) = Available(pre.table) - 1
       /\ \E it \in logs_table :
            /\ LogsGet(logs_table, Last.plate) = {it}
            /\ it.entry_epoch = Last.current_epoch
       /\ Last.response = [statusCode |-> 200, body |-> "OPEN_GATE"]

\* C2: an EXIT handled while the occupancy record exists, whatever its plate
\* (recognized, UNKNOWN, with or without a session record), leaves
\* available_slots one more than it found and answers {200, EXIT_SUCCESS}.
C2_ExitIncrements ==
    (/\ LastFinished
     /\ Last.action = "EXIT"
     /\ HasPlate(Last)
     /\ TableGet(pre.table) # {})
    => /\ TableGet(table) # {}
       /\ Slots(table) = Slots(pre.table) + 1
       /\ Last.response = [statusCode |-> 200, body |-> "EXIT_SUCCESS"]

\* C2 witness: an EXIT with a recognized plate that has no session record
C2_Witness ==
    /\ LastFinished
    /\ Last.action = "EXIT"
    /\ Last.plate \in PlateTexts
    /\ LogsGet(pre.logs_table, Last.plate) = {}
    /\ TableGet(pre.table) # {}
    /\ Slots(table) = Slots(pre.table) + 1
    /\ Last.response.body = "EXIT_SUCCESS"

\* C3: the stored available_slots never exceeds MAX_SPOTS.
C3_NeverAboveMax == TableGet(table) # {} => Slots(table) <= MAX_SPOTS

\* C4: with the requests handled one after the other, the stored
\* available_slots is never negative.
C4_NeverNegative == TableGet(table) # {} => Slots(table) >= 0

\* the requests of the current batch: those that arrived since request
\* pre.first, which found no other request in progress
Batch == {i \in Requests : i >= pre.first /\ req[i].pc # "idle"}

Quiescent == \A i \in Requests : req[i].pc = "idle" \/ Finished(i)

Answered(i, message) == req[i].pc = "done" /\ req[i].response.body = message

\* C5: whatever the interleaving of the requests' store operations, once all
\* requests are complete the stored available_slots is the starting value
\* (MAX_SPOTS for an absent record) minus the number of OPEN_GATE answers
\* plus the number of EXIT_SUCCESS answers.
C5_NoLostUpdate ==
    Quiescent =>
        Available(table) =
            Available(pre.table)
            - Cardinality({i \in Batch : Answered(i, "OPEN_GATE")})
            + Cardinality({i \in Batch : Answered(i, "EXIT_SUCCESS")})

\* C6: an ENTRY handled while the stored available_slots is 0 or less,
\* whatever its plate, answers {200, FULL} and leaves the occupancy record,
\* the session records and the metrics as they were.
C6_FullLeavesState ==
    (/\ LastFinished
     /\ Last.action = "ENTRY"
     /\ HasPlate(Last)
     /\ TableGet(pre.table) # {}
     /\ Slots(pre.table) <= 0)
    => /\ Last.response = [statusCode |-> 200, body |-> "FULL"]
       /\ table = pre.table
       /\ logs_table = pre.logs_table
       /\ cloudwatch = pre.cloudwatch

\* C7: an ENTRY whose plate is UNKNOWN, handled while the occupancy record
\* exists with available_slots > 0, answers {200, DENIED_NO_TEXT} and leaves
\* the occupancy record, the session records and the metrics as they were.
C7_DeniedLeavesState ==
    (/\ LastFinished
     /\ Last.action = "ENTRY"
     /\ Last.plate = "UNKNOWN"
     /\ TableGet(pre.table) # {}
     /\ Slots(pre.table) > 0)
    => /\ Last.response = [statusCode |-> 200, body |-> "DENIED_NO_TEXT"]
       /\ table = pre.table
       /\ logs_table = pre.logs_table
       /\ cloudwatch = pre.cloudwatch

\* the session record an EXIT finds for its plate
SessionOf(r) == LogsGet(pre.logs_table, r.plate)

EntryEpochOf(r) == (CHOOSE it \in SessionOf(r) : TRUE).entry_epoch

ExitWithSession(r) ==
    /\ r.pc = "done"
    /\ r.action = "EXIT"
    /\ r.plate \in PlateTexts
    /\ SessionOf(r) # {}

ExitWithoutSession(r) ==
    /\ r.pc = "done"
    /\ r.action = "EXIT"
    /\ HasPlate(r)
    /\ (r.plate = "UNKNOWN" \/ SessionOf(r) = {})

\* C8: the duration an EXIT computes is floor((exit_epoch - entry_epoch) / 60)
\* when its plate has a session record, for every pair of epochs, and 0 when
\* the plate is UNKNOWN or has no session record.
C8_DurationIsFloor ==
    /\ ExitWithSession(Last) =>
            Last.duration_minutes =
                (Last.exit_time - EntryEpochOf(Last)) \div 60
    /\ ExitWithoutSession(Last) => Last.duration_minutes = 0

\* an EXIT with a recognized plate whose lookup was answered with a record
ExitFound(r) ==
    /\ r.pc = "done"
    /\ r.action = "EXIT"
    /\ r.plate \in PlateTexts
    /\ r.car_record # {}

\* an EXIT with plate UNKNOWN, or whose lookup was answered with no record
ExitNotFound(r) ==
    /\ r.pc = "done"
    /\ r.action = "EXIT"
    /\ HasPlate(r)
    /\ (r.plate = "UNKNOWN" \/ r.car_record = {})

\* C8 amended: when the lookup is answered with a record for the plate (the
\* one stored or an earlier version of it), the duration is
\* (exit_epoch - entry_epoch) / 60 rounded toward zero, with the entry_epoch
\* of that record: the floor when exit_epoch >= entry_epoch, the ceiling
\* when exit_epoch < entry_epoch; it is 0 when the plate is UNKNOWN or the
\* lookup is answered with no record, which can happen while one is stored.
C8_DurationTruncates ==
    /\ ExitFound(Last) =>
            /\ \E version \in LogsVersions :
                    Last.car_record = LogsGet(version, Last.plate)
            /\ \A it \in Last.car_record :
                LET d == Last.exit_time - it.entry_epoch
                    m == Last.duration_minutes
                IN  IF d >= 0
                    THEN 60 * m <= d /\ d < 60 * (m + 1)
                    ELSE 60 * (m - 1) < d /\ d <= 60 * m
    /\ ExitNotFound(Last) => Last.duration_minutes = 0
    /\ (Last.pc = "done" /\ Last.action = "EXIT" /\ HasPlate(Last)) =>
            ExitFound(Last) \/ ExitNotFound(Last)

\* C8 witness: an EXIT whose clock reads 125 s less than the entry_epoch of
\* the record its lookup was answered with computes -2 minutes (the floor
\* is -3)
C8_Witness ==
    /\ ExitFound(Last)
    /\ \E it \in Last.car_record : Last.exit_time - it.entry_epoch = -125
    /\ Last.duration_minutes = -2

\* the body of request i decoded
Decoded(i) == B64Decode(req[i].body).ok

\* C9: whatever the action, the body and the failures of the collaborators,
\* a request's status code differs from 200 only if the decoding of its body
\* failed; every request whose body decodes gets status 200.
C9_Non200OnlyOnDecodeError ==
    \A i \in Requests :
        Finished(i) =>
            /\ req[i].response.statusCode # 200 => ~Decoded(i)
            /\ Decoded(i) => req[i].response.statusCode = 200

\* C10: a request whose body does not decode is answered exactly
\* {400, IMAGE_DECODE_ERROR} and has no effect: no image stored, no
\* recognition call, occupancy record, session records and metrics unchanged.
C10_DecodeErrorHasNoEffect ==
    (LastFinished /\ ~Decoded(pre.first))
    => /\ Last.response = [statusCode |-> 400, body |-> "IMAGE_DECODE_ERROR"]
       /\ s3 = pre.s3
       /\ rek_calls = pre.rek_calls
       /\ table = pre.table
       /\ logs_table = pre.logs_table
       /\ cloudwatch = pre.cloudwatch

\* C10 witness: an EXIT with a wrongly padded body, arriving after a request
\* that opened the gate, is answered 400
C10_Witness ==
    /\ LastFinished
    /\ Last.body = "abc"
    /\ Last.action = "EXIT"
    /\ Last.response.statusCode = 400
    /\ pre.first > 1
    /\ req[pre.first - 1].response.body = "OPEN_GATE"

\* the request handled just before the latest one
Previous == req[pre.first - 1]

\* from a state with n > 0 slots available (an absent record counting as
\* MAX_SPOTS), an ENTRY with a recognized plate followed by an EXIT with the
\* same plate, both handled to their end
RoundTrip ==
    /\ pre.first > 1
    /\ Available(pre.before) > 0
    /\ Previous.action = "ENTRY"
    /\ Previous.plate \in PlateTexts
    /\ Finished(pre.first - 1)
    /\ Last.action = "EXIT"
    /\ Last.plate = Previous.plate
    /\ LastFinished

\* C11: from a state with available_slots = n > 0, an ENTRY for plate p at
\* epoch T0 followed by an EXIT for p at epoch T0 + d (d >= 0) brings
\* available_slots back to n; the ENTRY answers OPEN_GATE, the EXIT answers
\* EXIT_SUCCESS, finds the session of the ENTRY and computes floor(d / 60)
\* minutes.
C11_RoundTrip ==
    RoundTrip =>
        /\ Previous.response = [statusCode |-> 200, body |-> "OPEN_GATE"]
        /\ Last.response = [statusCode |-> 200, body |-> "EXIT_SUCCESS"]
        /\ Available(table) = Available(pre.before)
        /\ \E it \in Last.car_record :
                /\ it.entry_epoch = Previous.current_epoch
                /\ Last.exit_time >= it.entry_epoch =>
                        Last.duration_minutes =
                            (Last.exit_time - it.entry_epoch) \div 60

\* request i emits its metrics batch in this step
EmitsBatch(i) ==
    /\ req[i].pc \in {"entry_metrics", "exit_metrics"}
    /\ req'[i].pc = "done"
    /\ Len(cloudwatch') = Len(cloudwatch) + 1

\* C12: every metrics batch emitted by an ENTRY or an EXIT holds an
\* available-slots sample whose value is the stored available_slots right
\* after that request's own update, also when requests interleave.
C12_BatchHasPostUpdateSlots ==
    [][\A i \in Requests :
        EmitsBatch(i) =>
            \E k \in DOMAIN cloudwatch'[Len(cloudwatch')] :
                /\ cloudwatch'[Len(cloudwatch')][k].MetricName
                        = "AvailableSlots_Demo"
                /\ cloudwatch'[Len(cloudwatch')][k].Value
                        = req[i].updated_slots]_vars

\* the latest request got through routing to a handler and its text
\* recognition call failed
RecognitionFailed ==
    /\ LastFinished
    /\ Last.action \in {"ENTRY", "EXIT"}
    /\ "detect_text" \in Last.failed

\* what an ENTRY does when no text was found: FULL or DENIED_NO_TEXT,
\* occupancy and session store unchanged
EntryAsNoText ==
    /\ Last.response =
            api_response(200, IF Available(pre.table) <= 0
                              THEN "FULL" ELSE "DENIED_NO_TEXT")
    /\ Available(table) = Available(pre.table)
    /\ logs_table = pre.logs_table

\* what an EXIT does when no text was found and the occupancy record exists
ExitAsNoText ==
    /\ Last.response = api_response(200, "EXIT_SUCCESS")
    /\ TableGet(table) # {}
    /\ Slots(table) = Available(pre.table) + 1
    /\ Last.duration_minutes = 0
    /\ logs_table = pre.logs_table

\* the slots the ENTRY r read: MAX_SPOTS when its read found no record
SlotsRead(r) == IF r.item = {} THEN MAX_SPOTS ELSE Slots(r.item)

\* The outcome of request r, started in the state snapshot p, when every
\* collaborator call succeeds; the clock readings, the plate and the answers
\* to its reads (r.item, r.car_record) are those of r.  An EXIT on an absent
\* occupancy record ends unanswered on its update.
ExpectedResponse(p, r) ==
    IF ~B64Decode(r.body).ok THEN api_response(400, "IMAGE_DECODE_ERROR")
    ELSE IF r.action = "ENTRY"
    THEN api_response(200, IF SlotsRead(r) <= 0 THEN "FULL"
                           ELSE IF r.plate = "UNKNOWN" THEN "DENIED_NO_TEXT"
                           ELSE "OPEN_GATE")
    ELSE IF r.action = "EXIT"
    THEN IF TableGet(p.table) = {} THEN NoResponse
         ELSE api_response(200, "EXIT_SUCCESS")
    ELSE api_response(400, "INVALID_ACTION")

ExpectedTable(p, r) ==
    IF ~B64Decode(r.body).ok THEN p.table
    ELSE IF r.action = "ENTRY"
    THEN LET t == IF r.item = {} THEN TablePut(p.table, MAX_SPOTS)
                  ELSE p.table
         IN  IF SlotsRead(r) > 0 /\ r.plate # "UNKNOWN"
             THEN TablePut(t, Slots(t) - 1)
             ELSE t
    ELSE IF r.action = "EXIT" /\ TableGet(p.table) # {}
    THEN TablePut(p.table, Slots(p.table) + 1)
    ELSE p.table

ExpectedLogs(p, r) ==
    IF /\ B64Decode(r.body).ok
       /\ r.action = "ENTRY"
       /\ SlotsRead(r) > 0
       /\ r.plate # "UNKNOWN"
    THEN LogsPut(p.logs_table,
                 [log_id |-> r.plate, entry_epoch |-> r.current_epoch,
                  action |-> "ENTRY", image_key |-> r.filename])
    ELSE p.logs_table

ExpectedDuration(r) ==
    IF r.plate # "UNKNOWN" /\ r.car_record # {}
    THEN DurationMinutes(r.exit_time,
                         (CHOOSE it \in r.car_record : TRUE).entry_epoch)
    ELSE 0

\* the calls the code makes on a best-effort basis
BestEffortCalls == {"s3_put", "logs_get", "cw_put"}

\* C14: whether the debug upload, the EXIT session lookup and the metrics
\* push succeed or fail, the response of a request and the occupancy and
\* session records it leaves are those of the run where they all succeed
\* (with the same answers to its reads); an EXIT whose lookup failed has
\* duration 0, otherwise the duration of the run where they all succeed,
\* and a batch it pushes carries that duration.
C14_BestEffortIsolated ==
    (LastFinished /\ "detect_text" \notin Last.failed) =>
        /\ Last.response = ExpectedResponse(pre, Last)
        /\ table = ExpectedTable(pre, Last)
        /\ logs_table = ExpectedLogs(pre, Last)
        /\ Last.response.body = "EXIT_SUCCESS" =>
            /\ Last.duration_minutes =
                    IF "logs_get" \in Last.failed THEN 0
                    ELSE ExpectedDuration(Last)
            /\ "cw_put" \notin Last.failed =>
                    cloudwatch =
                        Append(pre.cloudwatch,
                               MetricData("EXIT", Slots(table),
                                          Last.duration_minutes))

\* C14 witness: an EXIT for a plate whose session record would give a
\* duration of 2 minutes; the upload, the lookup and the push all fail; it
\* is answered EXIT_SUCCESS with one more slot and duration 0
C14_Witness ==
    /\ LastFinished
    /\ Last.failed = BestEffortCalls
    /\ Last.action = "EXIT"
    /\ \E it \in LogsGet(pre.logs_table, Last.plate) : it.entry_epoch = 0
    /\ Last.response = api_response(200, "EXIT_SUCCESS")
    /\ Slots(table) = Slots(pre.table) + 1
    /\ Last.duration_minutes = 0
    /\ cloudwatch = pre.cloudwatch

\* the request r as it is when the recognition call succeeds and finds no
\* text
WithNoText(r) == [r EXCEPT !.plate = "UNKNOWN"]

EntrySteps ==
    {"entry_get", "entry_init", "entry_update", "entry_log", "entry_metrics"}

\* C15: a request that carries the action header with the value EXIT, in any
\* casing of the header name, is routed to the exit handler; a request is
\* handled as an ENTRY only when it carries no action header (or one that
\* says ENTRY).
C15_HeaderCaseInsensitive ==
    \A i \in Requests :
        (req[i].pc # "idle" /\ Decoded(i)) =>
            /\ (\E n \in DOMAIN req[i].headers :
                    n \in HeaderNames /\ req[i].headers[n] = "EXIT")
               => /\ req[i].action = "EXIT"
                  /\ req[i].pc \notin EntrySteps
                  /\ req[i].response \in
                        {NoResponse, api_response(200, "EXIT_SUCCESS")}
            /\ (req[i].action = "ENTRY" \/ req[i].pc \in EntrySteps)
               => \A n \in DOMAIN req[i].headers :
                    n \in HeaderNames => req[i].headers[n] = "ENTRY"

\* the plate of request i has been determined
Recognized(i) == req[i].plate # "NONE"

\* the positions of the detections of type LINE with confidence above 70
Passing(d) ==
    {k \in DOMAIN d :
        d[k].Type = "LINE" /\ d[k].Confidence > CONFIDENCE_THRESHOLD}

\* C16 as stated: the plate is the text of the highest-confidence detection
\* among those of type LINE with confidence above 70, and is UNKNOWN exactly
\* when no detection passes the filter (or the image bytes are empty).
C16_PlateIsHighestConfidence ==
    \A i \in Requests :
        Recognized(i) =>
            LET d == req[i].detections
            IN  /\ req[i].plate = "UNKNOWN" <=> Passing(d) = {}
                /\ Passing(d) # {} =>
                    \E k \in Passing(d) :
                        /\ \A j \in Passing(d) :
                                d[k].Confidence >= d[j].Confidence
                        /\ req[i].plate = d[k].DetectedText

\* C16 amended: the plate is the text of the first detection, in the order
\* the recognizer returned them, among those of type LINE with confidence
\* above 70, and is UNKNOWN when no detection passes the filter (or the
\* image bytes are empty, where no detection is asked for).
C16_PlateIsFirstPassing ==
    \A i \in Requests :
        Recognized(i) =>
            LET d == req[i].detections
            IN  /\ req[i].image_bytes = "" => d = <<>>
                /\ req[i].plate =
                        IF Passing(d) = {} THEN "UNKNOWN"
                        ELSE d[CHOOSE k \in Passing(d) :
                                    \A j \in Passing(d) : k <= j].DetectedText

\* C16 witness: a passing line of confidence 80 returned before one of
\* confidence 90: the plate is the text of the first
C16_Witness ==
    \E i \in Requests :
        /\ Recognized(i)
        /\ Len(req[i].detections) = 2
        /\ req[i].detections[1].Confidence = 80
        /\ req[i].detections[2].Confidence = 90
        /\ req[i].detections[2].Type = "LINE"
        /\ req[i].plate = "XYZ789"
        /\ req[i].pc = "done"

\* C17: an EXIT handled while the occupancy record is absent still answers
\* {200, EXIT_SUCCESS}.
C17_ExitOnAbsentRecordSucceeds ==
    (/\ LastFinished
     /\ Last.action = "EXIT"
     /\ HasPlate(Last)
     /\ TableGet(pre.table) = {})
    => Last.response = [statusCode |-> 200, body |-> "EXIT_SUCCESS"]

\* C18: with ENTRY requests only, however they interleave, the stored
\* available_slots never drops below 0 and no more gates are opened than
\* there were slots at the start.
C18_NoOversell ==
    (\A i \in Requests : req[i].action \in {"NONE", "ENTRY"})
    => /\ Available(table) >= 0
       /\ Cardinality({i \in Batch : Answered(i, "OPEN_GATE")})
            <= Available(pre.table)

\* the ENTRY requests that opened the gate for plate p
Opened(p) == {i \in Requests : Answered(i, "OPEN_GATE") /\ req[i].plate = p}

MostRecent(S) == CHOOSE i \in S : \A j \in S : j <= i

\* C19: between requests, the session store holds a record for plate p if
\* and only if some ENTRY for p answered OPEN_GATE, at most one per plate,
\* with the entry_epoch of the most recent such ENTRY; a request that did not
\* answer OPEN_GATE leaves the session store as it found it; no record is
\* keyed by UNKNOWN.
C19_SessionStore ==
    Quiescent =>
        /\ \A p \in PlateTexts \cup {"UNKNOWN"} :
            /\ LogsGet(logs_table, p) # {} <=> Opened(p) # {}
            /\ Cardinality(LogsGet(logs_table, p)) <= 1
            /\ \A it \in LogsGet(logs_table, p) :
                    it.entry_epoch = req[MostRecent(Opened(p))].current_epoch
        /\ \A it \in logs_table : it.log_id \in PlateTexts
        /\ (LastFinished /\ ~Answered(pre.first, "OPEN_GATE")) =>
                logs_table = pre.logs_table

\* C19 witness: a second ENTRY for the same plate replaced the record of the
\* first with its own, later read, entry_epoch
C19_Witness ==
    /\ Quiescent
    /\ pre.first > 1
    /\ Answered(pre.first, "OPEN_GATE")
    /\ Answered(pre.first - 1, "OPEN_GATE")
    /\ Last.plate = Previous.plate
    /\ Last.current_epoch # Previous.current_epoch
    /\ \E it \in logs_table : it.entry_epoch = Last.current_epoch

\* the latest request wrote its session record
SessionWritten ==
    /\ "logs_put" \notin Last.failed
    /\ \E it \in logs_table :
        /\ it.log_id = Last.plate
        /\ it.entry_epoch = Last.current_epoch
        /\ it.image_key = Last.filename

\* C20: at the end of every ENTRY request, also one in which a store call
\* fails, available_slots has been decremented if and only if the session
\* record of the plate was written and the response is OPEN_GATE.
C20_DecrementAndSessionTogether ==
    (LastFinished /\ Last.action = "ENTRY" /\ Decoded(pre.first)) =>
        (Available(table) = Available(pre.table) - 1
            <=> (SessionWritten /\ Answered(pre.first, "OPEN_GATE")))

====
